---- MODULE Spec2Model ----
(***************************************************************************)
(* Model of the FALL lost-and-found service (src/main.py): the request     *)
(* handlers over the Annonce (Listing) and Device tables.                  *)
(*                                                                         *)
(* The store is the pair of tables; every handler is one action that       *)
(* performs the handler's store calls and records the HTTP response in     *)
(* `last`.  update_annonce awaits two store calls (update, then get); in   *)
(* Spec it runs to completion, in SpecConc other requests may run between  *)
(* its two awaits.                                                         *)
(***************************************************************************)
EXTENDS Integers, FiniteSets, Sequences, TLC

VARIABLES annonces,   \* Annonce table: id -> row, DOMAIN = ids of stored rows
          next_id,    \* next primary key the store assigns to an Annonce
          devices,    \* Device table: sequence of rows, in insertion order
          now,        \* the clock read by datetime.now()
          inflight,   \* update_annonce requests between their two store calls
          last        \* the last request served and its response

vars == <<annonces, next_id, devices, now, inflight, last>>

-----------------------------------------------------------------------------
(* Bounds *)

MaxId == 2          \* primary keys the Annonce table hands out
MaxTime == 2        \* clock values
MaxDevices == 2     \* Device rows
MaxInflight == 1    \* update_annonce requests suspended at once

-----------------------------------------------------------------------------
(* Record schemas (models.py, not part of the excerpted source) *)

NullTime == 0
NullText == "NULL"
DefaultActif == 0
DefaultStatut == "fall"

Ids == 1..MaxId
Titles == {"Lost wallet"}
ActifValues == {0, 1}
StatutValues == {"fall", "pupa"}
DeviceIds == {"d1"}

InputFields == {"title", "actif", "statut"}

\* The keyword arguments model_dump(exclude_unset=True) keeps: the fields in S.
ExcludeUnset(body, S) == [f \in S |-> body[f]]

\* AnnonceIn_Pydantic after model_dump(exclude_unset=True): only the fields
\* the request body set, each with a value of the field's type.
AnnonceIn_Pydantic ==
    { ExcludeUnset([title |-> t, actif |-> a, statut |-> s], S) :
        t \in Titles, a \in ActifValues, s \in StatutValues, S \in SUBSET InputFields }

DeviceIn_Pydantic == [device_id : DeviceIds]

\* The column defaults a row gets for the fields create() is not given.
AnnonceDefaults(id, t) ==
    [id |-> id, title |-> NullText, actif |-> DefaultActif, statut |-> DefaultStatut,
     created_at |-> t, updated_at |-> NullTime]

-----------------------------------------------------------------------------
(* Store operations (the ORM calls the handlers make) *)

\* One row with the keyword arguments of update()/create() written over it.
SetFields(row, kw) ==
    [f \in DOMAIN row |-> IF f \in DOMAIN kw THEN kw[f] ELSE row[f]]

\* Annonce.filter(id=i).update(**kw): rewrites the matching rows, no error on none.
FilterUpdate(store, i, kw) ==
    [j \in DOMAIN store |-> IF j = i THEN SetFields(store[j], kw) ELSE store[j]]

\* Annonce.filter(id=i).delete(): the remaining rows.
FilterDelete(store, i) ==
    [j \in DOMAIN store \ {i} |-> store[j]]

\* The number of rows Annonce.filter(id=i).delete() removed.
DeletedCount(store, i) ==
    Cardinality(DOMAIN store \cap {i})

\* Annonce.filter(id=i).update(...): the number of rows it matched.
UpdatedCount(store, i) ==
    Cardinality(DOMAIN store \cap {i})

\* Annonce.create(**kw): insert under the next primary key.
CreateRow(store, id, kw, t) ==
    [j \in DOMAIN store \cup {id} |->
        IF j = id THEN SetFields(AnnonceDefaults(id, t), kw) ELSE store[j]]

-----------------------------------------------------------------------------
(* Responses *)

StatusOK == "200"
StatusNotFound == "404"

\* A response: the status, the Status message (if any), the rows serialized.
Response(status, message, rows) ==
    [status |-> status, message |-> message, rows |-> rows]

NoMessage == ""
PublishedMessage == "L'annonce a bien ete publiee"
DoneMessage == "Felicitation, objet bien rendu au proprietaire !"
DeletedMessage == "L'annonce a ete supprimee"
DeleteNotFoundMessage == "L'annonce n'a pas ete trouvee"
DoesNotExistMessage == "Object does not exist"
InstallMessage == "Nous sommes heureux de vous compter parmis nous, utilisateur"

NoInput == <<>>

\* The id recorded for a request that names no Annonce.
NoId == 0

\* What ran between the store calls of a handler: nothing ("none"), other
\* requests none of which wrote the handler's row ("other"), or a request that
\* wrote the handler's row ("same").
Between == {"none", "other", "same"}

\* The record of a served request: the handler, its id and body, the number of
\* rows its write matched, what ran between its store calls, and the response.
Request(op, id, kw, matched, between, res) ==
    [op |-> op, id |-> id, kw |-> kw, matched |-> matched, between |-> between,
     res |-> res]

\* Annonce_Pydantic.from_queryset_single(Annonce.get(id=i)): the row, or the
\* DoesNotExist that the registered exception handler turns into a 404.
GetSingle(store, i) ==
    IF i \in DOMAIN store
    THEN Response(StatusOK, NoMessage, {store[i]})
    ELSE Response(StatusNotFound, DoesNotExistMessage, {})

\* A request suspended between the two store calls of update_annonce.
Suspended(i, kw, matched) ==
    [id |-> i, kw |-> kw, matched |-> matched, between |-> "none"]

\* A request on row i (NoId: on no row) runs while the requests in `requests`
\* are suspended.
Interfere(requests, i) ==
    { [r EXCEPT !.between = IF r.id = i \/ r.between = "same" THEN "same" ELSE "other"] :
        r \in requests }

-----------------------------------------------------------------------------
(* Queries of the collection endpoints *)

\* Annonce.all()
AllRows(store) == { store[j] : j \in DOMAIN store }

\* Annonce.filter(actif=1, statut="fall").all()
PublicRows(store) ==
    { r \in AllRows(store) : r.actif = 1 /\ r.statut = "fall" }

\* The private list filtered on actif alone.
PrivateRows_NoStatut(store) ==
    { r \in AllRows(store) : r.actif = 0 }

\* Annonce.filter(actif=0, statut="fall").all()
PrivateRows(store) ==
    { r \in AllRows(store) : r.actif = 0 /\ r.statut = "fall" }

-----------------------------------------------------------------------------
(* Initial state: empty tables after generate_schemas *)

Init ==
    /\ annonces = <<>>
    /\ next_id = 1
    /\ devices = <<>>
    /\ now = 1
    /\ inflight = {}
    /\ last = Request("startup", NoId, NoInput, 0, "none", Response(StatusOK, NoMessage, {}))

-----------------------------------------------------------------------------
(* Request handlers *)

get_annonces ==
    /\ last' = Request("get_annonces", NoId, NoInput, 0, "none",
                       Response(StatusOK, NoMessage, AllRows(annonces)))
    /\ UNCHANGED <<annonces, next_id, devices, now, inflight>>

get_actives_annonces ==
    /\ last' = Request("get_actives_annonces", NoId, NoInput, 0, "none",
                       Response(StatusOK, NoMessage, PublicRows(annonces)))
    /\ UNCHANGED <<annonces, next_id, devices, now, inflight>>

get_inactive_annonce ==
    /\ last' = Request("get_inactive_annonce", NoId, NoInput, 0, "none",
                       Response(StatusOK, NoMessage, PrivateRows(annonces)))
    /\ UNCHANGED <<annonces, next_id, devices, now, inflight>>

\* Annonce.create() called without the request's fields.
create_annonce_NoKwargs(kw) ==
    /\ next_id <= MaxId
    /\ annonces' = CreateRow(annonces, next_id, NoInput, now)
    /\ next_id' = next_id + 1
    /\ inflight' = Interfere(inflight, next_id)
    /\ last' = Request("create_annonce", next_id, kw, 0, "none",
                       GetSingle(annonces', next_id))
    /\ UNCHANGED <<devices, now>>

create_annonce(kw) ==
    /\ next_id <= MaxId
    /\ annonces' = CreateRow(annonces, next_id, kw, now)
    /\ next_id' = next_id + 1
    /\ inflight' = Interfere(inflight, next_id)
    /\ last' = Request("create_annonce", next_id, kw, 0, "none",
                       GetSingle(annonces', next_id))
    /\ UNCHANGED <<devices, now>>

get_annonce(i) ==
    /\ last' = Request("get_annonce", i, NoInput, 0, "none", GetSingle(annonces, i))
    /\ UNCHANGED <<annonces, next_id, devices, now, inflight>>

\* update_annonce with model_dump() in place of model_dump(exclude_unset=True):
\* the unset fields are written too, with their defaults.
update_annonce_DumpAll(i, kw) ==
    /\ annonces' = FilterUpdate(annonces, i,
                       [f \in InputFields |->
                           IF f \in DOMAIN kw THEN kw[f] ELSE AnnonceDefaults(i, now)[f]])
    /\ inflight' = Interfere(inflight, i)
    /\ last' = Request("update_annonce", i, kw, UpdatedCount(annonces, i), "none",
                       GetSingle(annonces', i))
    /\ UNCHANGED <<next_id, devices, now>>

\* update_annonce as an upsert: a missing row is created.
update_annonce_Upsert(i, kw) ==
    /\ annonces' = IF i \in DOMAIN annonces
                   THEN FilterUpdate(annonces, i, kw)
                   ELSE CreateRow(annonces, i, kw, now)
    /\ inflight' = Interfere(inflight, i)
    /\ last' = Request("update_annonce", i, kw, UpdatedCount(annonces, i), "none",
                       GetSingle(annonces', i))
    /\ UNCHANGED <<next_id, devices, now>>

\* The handler run with nothing between its two store calls.
update_annonce(i, kw) ==
    /\ annonces' = FilterUpdate(annonces, i, kw)
    /\ inflight' = Interfere(inflight, i)
    /\ last' = Request("update_annonce", i, kw, UpdatedCount(annonces, i), "none",
                       GetSingle(annonces', i))
    /\ UNCHANGED <<next_id, devices, now>>

\* The update never awaited: the request suspends with nothing written.
update_annonce_update_NotAwaited(i, kw) ==
    /\ Cardinality(inflight) < MaxInflight
    /\ Suspended(i, kw, UpdatedCount(annonces, i)) \notin inflight
    /\ inflight' = inflight \cup {Suspended(i, kw, UpdatedCount(annonces, i))}
    /\ UNCHANGED <<annonces, next_id, devices, now, last>>

\* First store call of update_annonce; the handler then suspends.
update_annonce_update(i, kw) ==
    /\ Cardinality(inflight) < MaxInflight
    /\ Suspended(i, kw, UpdatedCount(annonces, i)) \notin inflight
    /\ annonces' = FilterUpdate(annonces, i, kw)
    /\ inflight' = Interfere(inflight, i) \cup {Suspended(i, kw, UpdatedCount(annonces, i))}
    /\ UNCHANGED <<next_id, devices, now, last>>

\* Second store call of update_annonce: fetch the row and respond.
update_annonce_get(r) ==
    /\ r \in inflight
    /\ inflight' = Interfere(inflight \ {r}, NoId)
    /\ last' = Request("update_annonce", r.id, r.kw, r.matched, r.between,
                       GetSingle(annonces, r.id))
    /\ UNCHANGED <<annonces, next_id, devices, now>>

\* Publish that flips actif instead of setting it.
publish_annonce_Toggle(i) ==
    /\ annonces' = [j \in DOMAIN annonces |->
                       IF j = i
                       THEN SetFields(annonces[j],
                                [actif |-> 1 - annonces[j].actif, updated_at |-> now])
                       ELSE annonces[j]]
    /\ inflight' = Interfere(inflight, i)
    /\ last' = Request("publish_annonce", i, NoInput, UpdatedCount(annonces, i), "none",
                       Response(StatusOK, PublishedMessage, {}))
    /\ UNCHANGED <<next_id, devices, now>>

\* Publish that also puts statut back to "fall".
publish_annonce_Reopen(i) ==
    /\ annonces' = FilterUpdate(annonces, i,
                                [actif |-> 1, statut |-> "fall", updated_at |-> now])
    /\ inflight' = Interfere(inflight, i)
    /\ last' = Request("publish_annonce", i, NoInput, UpdatedCount(annonces, i), "none",
                       Response(StatusOK, PublishedMessage, {}))
    /\ UNCHANGED <<next_id, devices, now>>

publish_annonce(i) ==
    /\ annonces' = FilterUpdate(annonces, i, [actif |-> 1, updated_at |-> now])
    /\ inflight' = Interfere(inflight, i)
    /\ last' = Request("publish_annonce", i, NoInput, UpdatedCount(annonces, i), "none",
                       Response(StatusOK, PublishedMessage, {}))
    /\ UNCHANGED <<next_id, devices, now>>

\* Mark-resolved that withdraws the Listing without changing statut.
acchieve_annonce_ActifOnly(i) ==
    /\ annonces' = FilterUpdate(annonces, i, [actif |-> 0, updated_at |-> now])
    /\ inflight' = Interfere(inflight, i)
    /\ last' = Request("acchieve_annonce", i, NoInput, UpdatedCount(annonces, i), "none",
                       Response(StatusOK, DoneMessage, {}))
    /\ UNCHANGED <<next_id, devices, now>>

acchieve_annonce(i) ==
    /\ annonces' = FilterUpdate(annonces, i,
                                [statut |-> "pupa", actif |-> 0, updated_at |-> now])
    /\ inflight' = Interfere(inflight, i)
    /\ last' = Request("acchieve_annonce", i, NoInput, UpdatedCount(annonces, i), "none",
                       Response(StatusOK, DoneMessage, {}))
    /\ UNCHANGED <<next_id, devices, now>>

\* Delete without the check of deleted_count.
delete_annonce_Unchecked(i) ==
    /\ annonces' = FilterDelete(annonces, i)
    /\ inflight' = Interfere(inflight, i)
    /\ last' = Request("delete_annonce", i, NoInput, DeletedCount(annonces, i), "none",
                       Response(StatusOK, DeletedMessage, {}))
    /\ UNCHANGED <<next_id, devices, now>>

delete_annonce(i) ==
    /\ annonces' = FilterDelete(annonces, i)
    /\ inflight' = Interfere(inflight, i)
    /\ last' = Request("delete_annonce", i, NoInput, DeletedCount(annonces, i), "none",
                       IF DeletedCount(annonces, i) = 0
                       THEN Response(StatusNotFound, DeleteNotFoundMessage, {})
                       ELSE Response(StatusOK, DeletedMessage, {}))
    /\ UNCHANGED <<next_id, devices, now>>

\* Registration that keeps one row per device_id.
get_device_info_Dedup(device) ==
    /\ Len(devices) < MaxDevices
    /\ devices' = IF \E k \in 1..Len(devices) : devices[k].device_id = device.device_id
                  THEN devices
                  ELSE Append(devices, [id |-> Len(devices) + 1,
                                        device_id |-> device.device_id])
    /\ last' = Request("get_device_info", Len(devices) + 1, device, 0, "none",
                       Response(StatusOK, InstallMessage, {}))
    /\ UNCHANGED <<annonces, next_id, now, inflight>>

get_device_info(device) ==
    /\ Len(devices) < MaxDevices
    /\ devices' = Append(devices, [id |-> Len(devices) + 1, device_id |-> device.device_id])
    /\ last' = Request("get_device_info", Len(devices) + 1, device, 0, "none",
                       Response(StatusOK, InstallMessage, {}))
    /\ UNCHANGED <<annonces, next_id, now, inflight>>

\* Time passes between requests.
Tick ==
    /\ now < MaxTime
    /\ now' = now + 1
    /\ UNCHANGED <<annonces, next_id, devices, inflight, last>>

\* Requests served one at a time: every handler runs to its response.
Next ==
    \/ get_annonces
    \/ get_actives_annonces
    \/ get_inactive_annonce
    \/ \E kw \in AnnonceIn_Pydantic : create_annonce(kw)
    \/ \E i \in Ids : get_annonce(i)
    \/ \E i \in Ids, kw \in AnnonceIn_Pydantic : update_annonce(i, kw)
    \/ \E i \in Ids : publish_annonce(i)
    \/ \E i \in Ids : acchieve_annonce(i)
    \/ \E i \in Ids : delete_annonce(i)
    \/ \E device \in DeviceIn_Pydantic : get_device_info(device)
    \/ Tick

Spec == Init /\ [][Next]_vars

\* Concurrent requests on the Annonce table: update_annonce suspends between
\* its two awaited store calls, and the handlers that write the table (one
\* store call each) run in between.  At most MaxInflight requests are
\* suspended at once.
NextConc ==
    \/ \E kw \in AnnonceIn_Pydantic : create_annonce(kw)
    \/ \E i \in Ids, kw \in AnnonceIn_Pydantic : update_annonce_update(i, kw)
    \/ \E r \in inflight : update_annonce_get(r)
    \/ \E i \in Ids : publish_annonce(i)
    \/ \E i \in Ids : acchieve_annonce(i)
    \/ \E i \in Ids : delete_annonce(i)

SpecConc == Init /\ [][NextConc]_vars

-----------------------------------------------------------------------------
(* Properties *)

\* A row without the fields in `hidden`.
FieldsBut(row, hidden) == [f \in DOMAIN row \ hidden |-> row[f]]

\* Every row but row i is the same in both stores, over the same ids.
SameButRow(before, after, i) ==
    /\ DOMAIN after = DOMAIN before
    /\ \A j \in DOMAIN before \ {i} : after[j] = before[j]

\* The id of the request a step answers, when handler `op` answers it: every
\* handler records its own name, id and body in last', so a step of op(i, kw)
\* is a step with last'.op = op, last'.id = i and last'.kw = kw.
Served(op) == IF last'.op = op THEN {last'.id} ELSE {}

\* The response carries exactly one row, which has every value of kw.
ReturnsInput(res, kw) ==
    /\ res.status = StatusOK
    /\ Cardinality(res.rows) = 1
    /\ \A row \in res.rows : \A f \in DOMAIN kw : row[f] = kw[f]

\* C1: after Create(input) returns id i, no other stored Listing has id i, and
\* Get(i) returns a record whose provided fields equal the input, whose actif
\* and statut (when the input leaves them out) are the schema defaults, and
\* whose created_at is non-null.
C1_CreateThenGet ==
    last.op = "create_annonce" =>
        /\ last.id \in DOMAIN annonces
        /\ \A j \in DOMAIN annonces \ {last.id} : annonces[j].id # annonces[last.id].id
        /\ ReturnsInput(GetSingle(annonces, last.id), last.kw)
        /\ \A row \in GetSingle(annonces, last.id).rows :
              /\ row.id = last.id
              /\ "actif" \notin DOMAIN last.kw => row.actif = DefaultActif
              /\ "statut" \notin DOMAIN last.kw => row.statut = DefaultStatut
              /\ row.created_at # NullTime
        /\ last.res = GetSingle(annonces, last.id)

\* C1 witness: Create({title: "Lost wallet"}) was served while another Listing is stored.
C1_Witness ==
    /\ last.op = "create_annonce"
    /\ last.kw = [title |-> "Lost wallet"]
    /\ Cardinality(DOMAIN annonces) = 2
    /\ GetSingle(annonces, last.id).status = StatusOK

\* C2: after Publish(i) on an existing Listing, Get(i) shows actif = 1; and a
\* Publish(i) that follows a Publish(i) changes no field other than updated_at.
C2_PublishIdempotent ==
    [][\A i \in Served("publish_annonce") :
          (publish_annonce(i) /\ i \in DOMAIN annonces) =>
              /\ \A row \in GetSingle(annonces', i).rows : row.actif = 1
              /\ GetSingle(annonces', i).status = StatusOK
              /\ (last.op = "publish_annonce" /\ last.id = i) =>
                    /\ DOMAIN annonces' = DOMAIN annonces
                    /\ \A j \in DOMAIN annonces :
                          FieldsBut(annonces'[j], {"updated_at"})
                              = FieldsBut(annonces[j], {"updated_at"})]_vars

\* C2 witness: Publish(i) served at a later time than the publication of i
\* (the second call moved updated_at).
C2_Witness ==
    /\ last.op = "publish_annonce"
    /\ last.matched = 1
    /\ last.id \in DOMAIN annonces
    /\ annonces[last.id].actif = 1
    /\ annonces[last.id].updated_at > annonces[last.id].created_at

\* C3: after Mark-resolved(i) on an existing Listing, statut = "pupa" and
\* actif = 0, and the Listing is in neither the public nor the private list.
C3_ResolvedHidden ==
    (last.op = "acchieve_annonce" /\ last.matched = 1) =>
        /\ last.id \in DOMAIN annonces
        /\ annonces[last.id].statut = "pupa"
        /\ annonces[last.id].actif = 0
        /\ annonces[last.id] \notin PublicRows(annonces) \cup PrivateRows(annonces)

\* C3 witness: Mark-resolved was served for a stored Listing.
C3_Witness ==
    /\ last.op = "acchieve_annonce"
    /\ last.matched = 1
    /\ annonces[last.id].statut = "pupa"

C5_Delete ==
    [][\A i \in Served("delete_annonce") :
          delete_annonce(i) =>
              IF i \in DOMAIN annonces
              THEN /\ last'.res = Response(StatusOK, DeletedMessage, {})
                   /\ DOMAIN annonces' = DOMAIN annonces \ {i}
                   /\ \A j \in DOMAIN annonces' : annonces'[j] = annonces[j]
                   /\ GetSingle(annonces', i).status = StatusNotFound
              ELSE /\ last'.res.status = StatusNotFound
                   /\ annonces' = annonces]_vars

\* C5 witness: a Listing was deleted while another stays stored.
C5_Witness ==
    /\ last.op = "delete_annonce"
    /\ last.res.status = StatusOK
    /\ last.id \notin DOMAIN annonces
    /\ DOMAIN annonces # {}

\* C6: Update(i, input) on a stored Listing succeeds, returns the Listing, and
\* changes only the provided fields of row i; with no field provided nothing
\* changes.
C6_UpdateFrame ==
    [][\A i \in Served("update_annonce") : \A kw \in {last'.kw} :
          (update_annonce(i, kw) /\ i \in DOMAIN annonces) =>
              /\ last'.res = Response(StatusOK, NoMessage, {annonces'[i]})
              /\ SameButRow(annonces, annonces', i)
              /\ FieldsBut(annonces'[i], DOMAIN kw) = FieldsBut(annonces[i], DOMAIN kw)
              /\ DOMAIN kw = {} => annonces' = annonces]_vars

\* C6 witness: an Update with no field was served for a stored Listing whose
\* fields are not the defaults.
C6_Witness ==
    /\ last.op = "update_annonce"
    /\ DOMAIN last.kw = {}
    /\ last.res.status = StatusOK
    /\ annonces[last.id].actif = 1
    /\ annonces[last.id].statut = "pupa"
    /\ Cardinality(DOMAIN annonces) = 2

\* C7: Register-installation succeeds and appends exactly one Device row, also
\* for a device_id already stored, and no step changes or removes a stored
\* Device row.
C7_DevicesAppendOnly ==
    [][/\ Len(devices') >= Len(devices)
       /\ \A k \in 1..Len(devices) : devices'[k] = devices[k]
       /\ \A device \in {last'.kw} :
             (last'.op = "get_device_info" /\ get_device_info(device)) =>
                 /\ last'.res.status = StatusOK
                 /\ Len(devices') = Len(devices) + 1
                 /\ devices'[Len(devices')].device_id = device.device_id
                 /\ \A k \in 1..Len(devices) : devices[k] # devices'[Len(devices')]]_vars

\* C7 witness: two Device rows with the same device_id are stored.
C7_Witness ==
    /\ last.op = "get_device_info"
    /\ Len(devices) = 2
    /\ devices[1].device_id = devices[2].device_id
    /\ devices[1] # devices[2]

\* C8: Get(i) and Update(i, input) on a missing id answer NotFound; Update
\* writes nothing, creates no row, and its NotFound is the one of its fetch.
C8_MissingId ==
    [][/\ \A i \in Served("get_annonce") \ DOMAIN annonces :
             get_annonce(i) =>
                /\ last'.res.status = StatusNotFound
                /\ annonces' = annonces
       /\ \A i \in Served("update_annonce") \ DOMAIN annonces : \A kw \in {last'.kw} :
                update_annonce(i, kw) =>
                    /\ last'.matched = 0
                    /\ annonces' = annonces
                    /\ last'.res = GetSingle(annonces', i)
                    /\ last'.res.status = StatusNotFound]_vars

\* C8 witness: an Update with fields was served for a deleted id.
C8_Witness ==
    /\ last.op = "update_annonce"
    /\ last.res.status = StatusNotFound
    /\ DOMAIN last.kw # {}
    /\ last.id < next_id
    /\ DOMAIN annonces # {}

\* C9 as claimed: under every interleaving, Update(i, input) on a stored
\* Listing succeeds and returns the provided values.
C9_UpdateReturnsInput_Claimed ==
    (last.op = "update_annonce" /\ last.matched = 1) =>
        ReturnsInput(last.res, last.kw)

\* C9 amended: Update(i, input) on a stored Listing succeeds and returns the
\* provided values when no other request wrote Listing i between the update
\* and the fetch of the handler.
C9_UpdateReturnsInput_Undisturbed ==
    (last.op = "update_annonce" /\ last.matched = 1 /\ last.between # "same") =>
        ReturnsInput(last.res, last.kw)

\* C9 witness: an Update with fields was answered after another request ran
\* between its update and its fetch, on another Listing.
C9_Witness ==
    /\ last.op = "update_annonce"
    /\ last.matched = 1
    /\ last.between = "other"
    /\ DOMAIN last.kw = {"title", "actif", "statut"}
    /\ ReturnsInput(last.res, last.kw)

\* C10: Publish(i) changes only actif and updated_at of row i; on a resolved
\* Listing it gives actif = 1 with statut still "pupa", in neither list; Publish
\* and Mark-resolved on a missing id confirm and leave the store unchanged.
C10_PublishFrame ==
    [][/\ \A i \in Served("publish_annonce") :
             publish_annonce(i) =>
                /\ last'.res = Response(StatusOK, PublishedMessage, {})
                /\ SameButRow(annonces, annonces', i)
                /\ i \in DOMAIN annonces =>
                      /\ FieldsBut(annonces'[i], {"actif", "updated_at"})
                            = FieldsBut(annonces[i], {"actif", "updated_at"})
                      /\ (annonces[i].statut = "pupa" /\ annonces[i].actif = 0) =>
                            /\ annonces'[i].actif = 1
                            /\ annonces'[i].statut = "pupa"
                            /\ annonces'[i] \notin
                                  PublicRows(annonces') \cup PrivateRows(annonces')
                /\ i \notin DOMAIN annonces => annonces' = annonces
       /\ \A i \in Served("acchieve_annonce") \ DOMAIN annonces :
             acchieve_annonce(i) =>
                /\ last'.res = Response(StatusOK, DoneMessage, {})
                /\ annonces' = annonces]_vars

\* C10 witness: Publish was served for a resolved Listing.
C10_Witness ==
    /\ last.op = "publish_annonce"
    /\ last.matched = 1
    /\ annonces[last.id].statut = "pupa"
    /\ annonces[last.id].actif = 1

====
